---- MODULE Spec2Model ----
(***************************************************************************)
(* Search-and-evaluation engine of AI-chess: Evaluator.evaluate            *)
(* (src/engine/evaluation.py) and NegamaxEngine.choose_move / _negamax     *)
(* (src/engine/search.py), run against the chess.Board capability they     *)
(* consume (push, pop, legal_moves, is_capture, the terminal predicates,   *)
(* piece_map, turn).                                                       *)
(*                                                                         *)
(* chess.Board is an external library; it is modelled as a position in a   *)
(* game tree.  A position is identified by `key`; a root key and the moves *)
(* played from it determine every attribute of the position (pieces,       *)
(* legal moves, captures, check, draw status).  Init draws the root from a *)
(* bounded family of trees, so the engine is checked on NumSeeds * 2       *)
(* different games, each explored to MaxDepth plies below every position   *)
(* the caller reaches.                                                     *)
(***************************************************************************)
EXTENDS Integers, Sequences, FiniteSets, TLC

\* ------------------------------------------------------------------ bounds
\* number of game trees Init draws the root position from
NumSeeds == 36
\* largest search depth (plies) passed to or configured in the engine
MaxDepth == 3
\* largest number of legal moves of a position
MaxMoves == 3
\* number of moves the caller plays on the board between engine calls
MaxPly == 1
\* largest number of pieces of one side in a position set up piece by piece
MaxPieces == 16
\* largest number of legal moves of such a position
MaxMobility == 218

\* --------------------------------------------------------------- constants
WHITE == TRUE
BLACK == FALSE

\* Optional[...]: None, or a one-element sequence holding the value
None == <<>>
Some(x) == <<x>>

\* -10**9 / 10**9, the search window of choose_move and the initial best_score
Infinity == 1000000000

\* Evaluator.PIECE_VALUES
PIECE_VALUES ==
    [PAWN |-> 100, KNIGHT |-> 320, BISHOP |-> 330,
     ROOK |-> 500, QUEEN |-> 900, KING |-> 0]

\* Evaluator(mobility_weight=3)
mobility_weight == 3

\* ------------------------------------------------- chess.Board (external)
Piece(t, c) == [piece_type |-> t, color |-> c]

\* the piece sets a position of the model can hold
Layouts ==
    << <<Piece("KING", WHITE), Piece("KNIGHT", WHITE), Piece("KING", BLACK)>>,
       <<Piece("KING", WHITE), Piece("QUEEN", WHITE), Piece("KING", BLACK)>>,
       <<Piece("KING", WHITE), Piece("KING", BLACK), Piece("ROOK", BLACK)>>,
       <<Piece("KING", WHITE), Piece("PAWN", WHITE), Piece("KING", BLACK),
         Piece("PAWN", BLACK)>>,
       <<Piece("KING", WHITE), Piece("ROOK", WHITE), Piece("PAWN", WHITE),
         Piece("KING", BLACK), Piece("BISHOP", BLACK)>>,
       <<Piece("KING", WHITE), Piece("BISHOP", WHITE), Piece("KING", BLACK),
         Piece("KNIGHT", BLACK), Piece("PAWN", BLACK)>>,
       <<Piece("KING", WHITE), Piece("QUEEN", WHITE), Piece("ROOK", WHITE),
         Piece("KING", BLACK), Piece("QUEEN", BLACK), Piece("ROOK", BLACK)>>,
       <<Piece("KING", WHITE), Piece("PAWN", WHITE), Piece("PAWN", WHITE),
         Piece("KING", BLACK), Piece("QUEEN", BLACK)>> >>

\* the key of the position reached from position `key` by its i-th move
\* (i = 0: the key of a root position)
Mix(key, i) == ((key + 131 * i + 7) * (key + 131 * i + 7) + key) % 30011

Digit(key, div, base) == (key \div div) % base

\* board.piece_map().values()
\* board.piece_map(): a position set up piece by piece holds what it was
\* given, a position of a game tree what its key says
piece_map(board) ==
    IF "pieces" \in DOMAIN board THEN board.pieces
    ELSE Layouts[Digit(board.key, 1, Len(Layouts)) + 1]

\* the number of legal moves, likewise
NumLegal(board) ==
    IF "mobility" \in DOMAIN board THEN board.mobility
    ELSE LET n == Digit(board.key, 8, 2 * MaxMoves + 1)
         IN IF n > MaxMoves THEN n - MaxMoves ELSE n

\* move.promotion (a move of the model carries its index in the enumeration)
PromotionOf(board, i) == Digit(Mix(board.key, i), 1024, 8) \in {2, 3}

\* list(board.legal_moves), in the order the board enumerates them
legal_moves(board) ==
    [i \in 1..NumLegal(board) |-> [idx |-> i, promotion |-> PromotionOf(board, i)]]

\* board.is_capture(m)
is_capture(board, m) == Digit(Mix(board.key, m.idx), 1024, 8) \in {0, 1, 2}

is_check(board) == Digit(board.key, 64, 2) = 1

HasOnly(pieces, c, types) ==
    \A k \in 1..Len(pieces) : pieces[k].color = c => pieces[k].piece_type \in types

CountOf(pieces, c) == Cardinality({k \in 1..Len(pieces) : pieces[k].color = c})

\* board.has_insufficient_material(c): c cannot mate with what it has
has_insufficient_material(board, c) ==
    LET pieces == piece_map(board)
    IN /\ HasOnly(pieces, c, {"KING", "KNIGHT", "BISHOP"})
       /\ \/ HasOnly(pieces, c, {"KING"})
          \/ /\ CountOf(pieces, c) <= 2
             /\ HasOnly(pieces, ~c, {"KING", "QUEEN"})

\* board.is_insufficient_material()
is_insufficient_material(board) ==
    has_insufficient_material(board, WHITE) /\ has_insufficient_material(board, BLACK)

\* board.is_checkmate(): in check and no legal move
is_checkmate(board) ==
    NumLegal(board) = 0 /\ is_check(board) /\ ~is_insufficient_material(board)

\* board.is_stalemate(): no legal move and not checkmate
is_stalemate(board) == NumLegal(board) = 0 /\ ~is_checkmate(board)

\* board.is_fivefold_repetition() or board.is_seventyfive_moves()
is_forced_draw(board) == NumLegal(board) > 0 /\ Digit(board.key, 128, 16) = 1

\* board.can_claim_draw(): threefold repetition or fifty moves
can_claim_draw(board) == NumLegal(board) > 0 /\ Digit(board.key, 128, 16) \in {0, 1}

\* board.is_game_over()
is_game_over(board) ==
    \/ is_checkmate(board)
    \/ is_stalemate(board)
    \/ is_insufficient_material(board)
    \/ is_forced_draw(board)

\* board.push(move)
push(board, move) ==
    [turn |-> ~board.turn,
     key |-> Mix(board.key, move.idx),
     move_stack |-> Append(board.move_stack, move),
     stack |-> Append(board.stack, [turn |-> board.turn, key |-> board.key])]

\* board.pop()
pop(board) ==
    LET n == Len(board.stack)
    IN [turn |-> board.stack[n].turn,
        key |-> board.stack[n].key,
        move_stack |-> SubSeq(board.move_stack, 1, n - 1),
        stack |-> SubSeq(board.stack, 1, n - 1)]

\* ------------------------------------------------------ Evaluator.evaluate
RECURSIVE MaterialFrom(_, _)
\* the loop of evaluation.py:50-52 from piece k on
MaterialFrom(pieces, k) ==
    IF k > Len(pieces) THEN 0
    ELSE LET val == PIECE_VALUES[pieces[k].piece_type]
         IN (IF pieces[k].color = WHITE THEN val ELSE -val) + MaterialFrom(pieces, k + 1)

\* a mobility term always added
MobilityTermUnsigned(board) == mobility_weight * Len(legal_moves(board))

\* evaluation.py:56, the mobility term signed by the colour to move
MobilityTerm(board) ==
    LET mobility == Len(legal_moves(board))
    IN mobility_weight * (IF board.turn = WHITE THEN mobility ELSE -mobility)

\* a sentinel that is always the loss of the side to move
MateScoreSideToMove(turn) == -999999

\* a sentinel as large as the search window
MateScoreInfinite(turn) == IF turn THEN -Infinity ELSE Infinity

\* evaluation.py:60, the score of a checkmate with `turn` to move
MateScore(turn) == IF turn THEN -999999 ELSE 999999

\* a draw test without the claimable draws
IsDrawNoClaim(board) == is_stalemate(board) \/ is_insufficient_material(board)

\* evaluation.py:62, the positions scored 0
IsDraw(board) ==
    is_stalemate(board) \/ is_insufficient_material(board) \/ can_claim_draw(board)

\* Evaluator.evaluate(board)
evaluate(board) ==
    IF is_checkmate(board) THEN MateScore(board.turn)
    ELSE IF IsDraw(board) THEN 0
    ELSE MaterialFrom(piece_map(board), 1) + MobilityTerm(board)

\* ------------------------------------------------- NegamaxEngine._negamax
\* move_score(m), the sort key of search.py:81-86
move_score(board, m) ==
    IF is_capture(board, m) THEN 1000
    ELSE IF m.promotion THEN 900
    ELSE 0

\* an insertion that puts m ahead of the moves with the same key
InsertByScoreUnstable(board, sorted, m) ==
    LET ahead == Cardinality({k \in 1..Len(sorted) :
                                 move_score(board, sorted[k]) > move_score(board, m)})
    IN SubSeq(sorted, 1, ahead) \o <<m>> \o SubSeq(sorted, ahead + 1, Len(sorted))

\* the moves of `sorted` (descending by move_score) with m inserted after every
\* move whose key is at least m's: one step of a stable descending sort
InsertByScore(board, sorted, m) ==
    LET ahead == Cardinality({k \in 1..Len(sorted) :
                                 move_score(board, sorted[k]) >= move_score(board, m)})
    IN SubSeq(sorted, 1, ahead) \o <<m>> \o SubSeq(sorted, ahead + 1, Len(sorted))

RECURSIVE SortedPrefix(_, _, _)
SortedPrefix(board, moves, n) ==
    IF n = 0 THEN <<>>
    ELSE CHOOSE result \in {InsertByScore(board, sorted, moves[n]) :
                               sorted \in {SortedPrefix(board, moves, n - 1)}} : TRUE

\* moves.sort(key=move_score, reverse=True): list.sort is stable, also reversed
SortMoves(board, moves) == SortedPrefix(board, moves, Len(moves))

\* the move list a node iterates over.  ordered = TRUE is the code (the sort of
\* search.py:89); ordered = FALSE is the same search without the sort, which
\* takes the moves as legal_moves enumerates them
MoveList(ordered, board) ==
    IF ordered THEN SortMoves(board, legal_moves(board)) ELSE legal_moves(board)

\* a base case one ply early
IsLeafOffByOne(board, depth) == depth <= 1 \/ is_game_over(board)

\* the base case test of search.py:70
IsLeaf(board, depth) == depth = 0 \/ is_game_over(board)

\* a window negated without swapping its ends
ChildWindowNoSwap(alpha, beta) == [alpha |-> -alpha, beta |-> -beta]

\* the window handed to the recursive call, search.py:94
ChildWindow(alpha, beta) == [alpha |-> -beta, beta |-> -alpha]

\* a later move of equal score taken as an improvement
ImprovesOrEqual(score, best_score) == score >= best_score

\* search.py:99-101: strict improvement only
Improves(score, best_score) == score > best_score

\* search.py:104-105
RaiseAlpha(score, alpha) == IF score > alpha THEN score ELSE alpha

\* a cutoff only once alpha has passed beta
CutoffStrict(alpha, beta) == alpha > beta

\* search.py:106
Cutoff(alpha, beta) == alpha >= beta

\* a child's score taken over without the change of sign
NegateForgot(child_score) == child_score

\* search.py:95
Negate(child_score) == -child_score

\* a move made and never unmade
UnmakeNoPop(child_board) == child_board

\* search.py:96, the board after the recursive call returned
Unmake(child_board) == pop(child_board)

\* one pass through the loop body, search.py:93-107, given what the recursive
\* call of search.py:94 returned: the board and the locals after it, and
\* whether the loop breaks
Visit(board, alpha, beta, move, best_score, best_move, nodes, child) ==
    LET score == Negate(child.score)
        better == Improves(score, best_score)
        new_alpha == RaiseAlpha(score, alpha)
    IN [board |-> Unmake(child.board),
        alpha |-> new_alpha,
        best_score |-> IF better THEN score ELSE best_score,
        best_move |-> IF better THEN Some(move) ELSE best_move,
        nodes |-> nodes + child.nodes,
        break |-> Cutoff(new_alpha, beta)]

\* search.py:110
Return(st) ==
    [score |-> st.best_score, move |-> st.best_move, board |-> st.board, nodes |-> st.nodes]

RECURSIVE Search(_, _, _, _, _, _, _, _)

\* _negamax(board, depth, alpha, beta) from function entry (i = 0, search.py:69-89)
\* or from the head of the for loop before the i-th move of `moves` (i >= 1,
\* search.py:92-110); st holds the board and the locals alpha, best_score and
\* best_move as they are there.  The result is (score, move) as returned, the
\* board object as the call leaves it, and `nodes`, the number of _negamax
\* calls made below and including this one
Search(ordered, board, depth, alpha, beta, moves, i, st) ==
    IF i = 0
    THEN IF IsLeaf(board, depth)
         THEN [score |-> evaluate(board), move |-> None, board |-> board, nodes |-> 1]
         ELSE CHOOSE result \in
                {Search(ordered, board, depth, alpha, beta, ms, 1,
                        [board |-> board, alpha |-> alpha, best_score |-> -Infinity,
                         best_move |-> None, nodes |-> 1, break |-> FALSE]) :
                   ms \in {MoveList(ordered, board)}} : TRUE
    ELSE IF i > Len(moves) \/ st.break
    THEN Return(st)
    ELSE CHOOSE result \in
           {Search(ordered, board, depth, alpha, beta, moves, i + 1, next) :
              next \in {Visit(st.board, st.alpha, beta, moves[i], st.best_score,
                              st.best_move, st.nodes, child) :
                 child \in {Search(ordered, b, depth - 1, w.alpha, w.beta, <<>>, 0, st) :
                              b \in {push(st.board, moves[i])},
                              w \in {ChildWindow(st.alpha, beta)}}}} : TRUE

negamax(board, depth, alpha, beta) ==
    Search(TRUE, board, depth, alpha, beta, <<>>, 0, <<>>)

\* --------------------------------------------- NegamaxEngine.choose_move
\* an override of 0 taken for no override (depth or self.depth)
EffectiveDepthTruthy(self_depth, depth) ==
    IF depth /= None /\ depth[1] /= 0 THEN depth[1] ELSE self_depth

\* d = depth if depth is not None else self.depth
EffectiveDepth(self_depth, depth) == IF depth /= None THEN depth[1] ELSE self_depth

\* choose_move without its fallback
FallbackNone(r, rnd) == [move |-> r.move, random_used |-> FALSE]

\* search.py:49-52, given (score, move) = r as the root search returned it:
\* the move choose_move returns, and whether random.choice was called (rnd is
\* the index it draws)
Fallback(r, rnd) ==
    LET legal == legal_moves(r.board)
    IN IF r.move = None
       THEN [move |-> IF legal /= <<>> THEN Some(legal[((rnd - 1) % Len(legal)) + 1])
                      ELSE None,
             random_used |-> legal /= <<>>]
       ELSE [move |-> r.move, random_used |-> FALSE]

\* an aspiration window as wide as the checkmate scores
RootWindowNarrow == [alpha |-> -999999, beta |-> 999999]

\* the window of the root call, search.py:46
RootWindow == [alpha |-> -Infinity, beta |-> Infinity]

\* choose_move(board, depth) of an engine configured with self_depth
RootSearch(self_depth, board, depth) ==
    negamax(board, EffectiveDepth(self_depth, depth), RootWindow.alpha, RootWindow.beta)

\* ------------------------------------------------------------ the callers
\* board         the chess.Board the caller owns and hands to the engine
\* engine_depth  NegamaxEngine.depth, fixed at construction
\* calls         the choose_move calls made on the current position (at most
\*               two, the second with the arguments of the first)
\* evaluated     the last Evaluator.evaluate call made on the current position
\* run           a root search followed call by call: the _negamax frames on
\*               the Python stack and what the last call that returned did
\* gui           the ChessGUI window of interface.py and the two move files
\* console       the game loop of main.py: where it is, the GameRecorder's
\*               positions_fen and PGN line, and what the last prompt read
VARIABLES board, engine_depth, calls, evaluated, run, gui, console

vars == <<board, engine_depth, calls, evaluated, run, gui, console>>

\* no window open
NoGui == [open |-> FALSE]

\* no console game
NoConsole == [phase |-> "off"]

\* no search in progress
Idle == [phase |-> "idle", d |-> 0, frames |-> <<>>, ret |-> None, last |-> None]

DepthArgs == {None} \cup {Some(d) : d \in 0..MaxDepth}

Init ==
    /\ \E seed \in 0..(NumSeeds - 1), t \in BOOLEAN :
          board = [turn |-> t, key |-> Mix(seed, 0), move_stack |-> <<>>, stack |-> <<>>]
    /\ engine_depth \in 0..MaxDepth
    /\ calls = <<>>
    /\ evaluated = None
    /\ run = Idle
    /\ gui = NoGui
    /\ console = NoConsole

\* what one choose_move call did: its arguments, the board before and after,
\* the effective depth d, the root search's result and the returned move
CallRecord(before, depth, d, r, out) ==
    [before |-> before, depth |-> depth, d |-> d, after |-> r.board,
     search_move |-> r.move, score |-> r.score, nodes |-> r.nodes,
     move |-> out.move, random_used |-> out.random_used]

\* choose_move(board, depth) as a whole, search.py:43-52
Call(depth, rnd) ==
    \E r \in {RootSearch(engine_depth, board, depth)} :
       \E out \in {Fallback(r, rnd)} :
          /\ calls' = Append(calls, CallRecord(board, depth,
                                               EffectiveDepth(engine_depth, depth), r, out))
          /\ board' = r.board

\* engine.choose_move(board, depth), main.py:77 and interface.py:290
ChooseMove ==
    /\ calls = <<>>
    /\ evaluated = None
    /\ \E depth \in DepthArgs, rnd \in 1..MaxMoves : Call(depth, rnd)
    /\ UNCHANGED <<engine_depth, evaluated, run, gui, console>>

\* the same call once more, on the board the first call left
ChooseAgain ==
    /\ Len(calls) = 1
    /\ \E rnd \in 1..MaxMoves : Call(calls[1].depth, rnd)
    /\ UNCHANGED <<engine_depth, evaluated, run, gui, console>>

\* evaluator.evaluate(board)
Evaluate ==
    /\ evaluated = None
    /\ calls = <<>>
    /\ evaluated' = Some([board |-> board, score |-> evaluate(board)])
    /\ UNCHANGED <<board, engine_depth, calls, run, gui, console>>

\* the caller plays a legal move on its board (main.py:69, main.py:87)
Push ==
    /\ ~is_game_over(board)
    /\ Len(board.move_stack) < MaxPly
    /\ \E i \in 1..NumLegal(board) : board' = push(board, legal_moves(board)[i])
    /\ calls' = <<>>
    /\ evaluated' = None
    /\ UNCHANGED <<engine_depth, run, gui, console>>

Next == ChooseMove \/ ChooseAgain \/ Evaluate \/ Push

Spec == Init /\ [][Next]_vars

\* ------------------------------------------- _negamax, one call at a time
\* The root search of choose_move followed through its recursion.  run.frames
\* is the stack of _negamax calls in progress, the last one the current call:
\*   pc          "entry" at function entry (search.py:69), "loop" at the head
\*               of the for loop (search.py:92)
\*   depth, alpha, beta, moves, best_score, best_move   the parameters and locals
\*   i           the index in `moves` of the move the loop takes next
\*   broke       whether the break of search.py:107 was taken
\*   entry       the board as the call received it
\*   visited     the moves applied so far, each with the score its recursive
\*               call returned
\* run.last is the call that returned last, run.ret the value the root call
\* returned.

\* the frame of a call _negamax(board, depth, alpha, beta) at its entry
EntryFrame(b, depth, alpha, beta) ==
    [pc |-> "entry", depth |-> depth, alpha |-> alpha, beta |-> beta, entry |-> b,
     moves |-> <<>>, i |-> 0, best_score |-> -Infinity, best_move |-> None,
     broke |-> FALSE, visited |-> <<>>]

Top(frames) == frames[Len(frames)]

Caller(frames) == SubSeq(frames, 1, Len(frames) - 1)

\* a recursive call with the depth left as it is
ChildDepthSame(depth) == depth

\* the depth handed to the recursive call, search.py:94
ChildDepth(depth) == depth - 1

\* what a call that returns leaves behind for inspection
Returned(f, b, result) ==
    [entry |-> f.entry, depth |-> f.depth, alpha |-> f.alpha, beta |-> f.beta,
     leaf |-> f.pc = "entry", moves |-> f.moves, visited |-> f.visited,
     broke |-> f.broke, score |-> result.score, move |-> result.move,
     board |-> b, level |-> Len(run.frames) - 1]

\* the caller's frame after search.py:95-107 ran on the value v of Visit
AfterVisit(p, child_score, v) ==
    [p EXCEPT !.alpha = v.alpha, !.best_score = v.best_score,
              !.best_move = v.best_move, !.broke = v.break, !.i = p.i + 1,
              !.visited = Append(p.visited, [move |-> p.moves[p.i],
                                             child_score |-> child_score])]

\* the current call returns `result`: the root call ends the search, any other
\* call hands the value to its caller, which runs search.py:95-107
Deliver(result) ==
    LET f == Top(run.frames)
        rest == Caller(run.frames)
    IN IF rest = <<>>
       THEN /\ run' = [run EXCEPT !.phase = "done", !.frames = <<>>,
                                  !.ret = Some(result),
                                  !.last = Some(Returned(f, board, result))]
            /\ UNCHANGED board
       ELSE \E p \in {Top(rest)} :
              \E v \in {Visit(board, p.alpha, p.beta, p.moves[p.i], p.best_score,
                              p.best_move, 0,
                              [score |-> result.score, board |-> board, nodes |-> 0])} :
                 /\ board' = v.board
                 /\ run' = [run EXCEPT
                              !.frames = Caller(rest) \o <<AfterVisit(p, result.score, v)>>,
                              !.last = Some(Returned(f, board, result))]

\* choose_move calls self._negamax(board, d, -10**9, 10**9), search.py:43-46
Begin ==
    /\ run.phase = "idle"
    /\ \E depth \in DepthArgs :
          \E d \in {EffectiveDepth(engine_depth, depth)} :
             run' = [run EXCEPT !.phase = "search", !.d = d,
                                !.frames = <<EntryFrame(board, d, RootWindow.alpha,
                                                        RootWindow.beta)>>]
    /\ UNCHANGED <<board, engine_depth, calls, evaluated, gui, console>>

\* the base case, search.py:70-71
ReturnLeaf ==
    /\ run.phase = "search"
    /\ Top(run.frames).pc = "entry"
    /\ IsLeaf(board, Top(run.frames).depth)
    /\ Deliver([score |-> evaluate(board), move |-> None])
    /\ UNCHANGED <<engine_depth, calls, evaluated, gui, console>>

\* search.py:74-89: the locals are initialised and the moves listed and sorted
Prepare ==
    /\ run.phase = "search"
    /\ Top(run.frames).pc = "entry"
    /\ ~IsLeaf(board, Top(run.frames).depth)
    /\ run' = [run EXCEPT !.frames[Len(run.frames)] =
                  [@ EXCEPT !.pc = "loop", !.moves = MoveList(TRUE, board), !.i = 1]]
    /\ UNCHANGED <<board, engine_depth, calls, evaluated, gui, console>>

\* search.py:92-94: the loop takes its next move, applies it and calls
\* _negamax on the position reached
Apply ==
    /\ run.phase = "search"
    /\ Len(run.frames) <= MaxDepth + 2
    /\ \E f \in {Top(run.frames)} :
          /\ f.pc = "loop"
          /\ f.i <= Len(f.moves)
          /\ ~f.broke
          /\ board' = push(board, f.moves[f.i])
          /\ run' = [run EXCEPT !.frames =
                        Append(run.frames,
                               EntryFrame(push(board, f.moves[f.i]), ChildDepth(f.depth),
                                          ChildWindow(f.alpha, f.beta).alpha,
                                          ChildWindow(f.alpha, f.beta).beta))]
    /\ UNCHANGED <<engine_depth, calls, evaluated, gui, console>>

\* search.py:110, after the loop ran out of moves or broke
ReturnNode ==
    /\ run.phase = "search"
    /\ \E f \in {Top(run.frames)} :
          /\ f.pc = "loop"
          /\ f.i > Len(f.moves) \/ f.broke
          /\ Deliver([score |-> f.best_score, move |-> f.best_move])
    /\ UNCHANGED <<engine_depth, calls, evaluated, gui, console>>

NextSteps == Begin \/ ReturnLeaf \/ Prepare \/ Apply \/ ReturnNode

SpecSteps == Init /\ [][NextSteps]_vars

\* the scheduling of a running Python call: it takes its next step
SpecStepsFair == SpecSteps /\ WF_vars(NextSteps)

\* ------------------------------- the evaluator on positions of any size
\* Besides the positions of the game trees, evaluate is applied to positions
\* set up piece by piece: a king and up to MaxPieces - 1 pieces of one type
\* for each side, with a given number of legal moves.

Army(c, t, n) == <<Piece("KING", c)>> \o [k \in 1..n |-> Piece(t, c)]

ArmySizes == {0, 1, MaxPieces - 1}

Mobilities == {0, 1, MaxMobility}

SetUpBoards ==
    {[turn |-> t, key |-> Mix(seed, 0), move_stack |-> <<>>, stack |-> <<>>,
      pieces |-> Army(WHITE, tw, nw) \o Army(BLACK, tb, nb), mobility |-> mob] :
        t \in BOOLEAN, seed \in 0..(NumSeeds - 1),
        tw \in {"PAWN", "BISHOP", "QUEEN"}, tb \in {"PAWN", "BISHOP", "QUEEN"},
        nw \in ArmySizes, nb \in ArmySizes, mob \in Mobilities}

IsSetUp(b) == "pieces" \in DOMAIN b

InitBounds ==
    \/ Init
    \/ /\ board \in SetUpBoards
       /\ engine_depth = 0
       /\ calls = <<>>
       /\ evaluated = None
       /\ run = Idle
       /\ gui = NoGui
       /\ console = NoConsole
    /\ console = NoConsole

\* evaluate on the positions set up, the search step by step on the others
NextBounds ==
    \/ IsSetUp(board) /\ Evaluate
    \/ ~IsSetUp(board) /\ NextSteps

SpecBounds == InitBounds /\ [][NextBounds]_vars

\* ------------------------------------------------ ChessGUI, interface.py
\* gui holds the fields of the window and what is outside it:
\*   can_human_move, selected   the fields of that name (selected: a square is
\*                              selected)
\*   initial, final             whether initialMove.txt / finalMove.txt exist
\*   timer                      the callback of the pending root.after poll of
\*                              wait_until_files_deleted, or "none"
\*   shown                      show_result has run
\*   writes                     the number of write_move_files calls so far
\*   observed                   the number of them whose files a poll has since
\*                              seen both absent
\* The position is `board`; the engine is NegamaxEngine(depth=GuiDepth).

\* depth=3 in ChessGUI.__init__
GuiDepth == 3

\* the plies a game is followed for
MaxGuiPly == 4

GuiStart ==
    [open |-> TRUE, can_human_move |-> TRUE, selected |-> FALSE, initial |-> FALSE,
     final |-> FALSE, timer |-> "none", shown |-> FALSE, writes |-> 0, observed |-> 0]

InitGUI ==
    /\ \E seed \in 0..(NumSeeds - 1) :
          board = [turn |-> WHITE, key |-> Mix(seed, 0), move_stack |-> <<>>, stack |-> <<>>]
    /\ engine_depth = GuiDepth
    /\ calls = <<>>
    /\ evaluated = None
    /\ run = Idle
    /\ gui = GuiStart
    /\ console = NoConsole

\* write_move_files(move), interface.py:72-92: both files exist afterwards
WriteMoveFiles(g) == [g EXCEPT !.initial = TRUE, !.final = TRUE, !.writes = @ + 1]

\* show_result(), interface.py:317-336
ShowResult(st) == [st EXCEPT !.gui.shown = TRUE]

\* a poll that goes on as soon as one of the files is gone
FilesDeletedEither(initial_exists, final_exists) == ~initial_exists \/ ~final_exists

\* the test of interface.py:104
FilesDeleted(initial_exists, final_exists) == ~initial_exists /\ ~final_exists

\* what a look at the two files shows: with both absent, every move written
\* so far has been taken by the external system
Observe(st) ==
    IF ~st.gui.initial /\ ~st.gui.final
    THEN [st EXCEPT !.gui.observed = st.gui.writes]
    ELSE st

\* a wait that looks once and sets no new poll
WaitUntilFilesDeletedOnce(st, cb, called) ==
    IF FilesDeleted(st.gui.initial, st.gui.final) THEN called ELSE st

\* wait_until_files_deleted(callback), interface.py:95-108: `called` is the
\* state callback() leaves, `cb` names the callback for the next poll
WaitUntilFilesDeleted(st, cb, called) ==
    IF FilesDeleted(st.gui.initial, st.gui.final) THEN called
    ELSE [st EXCEPT !.gui.timer = cb]

\* after_ai_move_ready(), interface.py:125-136
AfterAiMoveReady(st) ==
    IF is_game_over(st.board) THEN ShowResult(st)
    ELSE [st EXCEPT !.gui.can_human_move = TRUE]

\* the rest of computer_move() once choose_move returned `move` on board b,
\* interface.py:291-314
PlayComputerMove(st, b, move) ==
    IF move = None THEN ShowResult([st EXCEPT !.board = b])
    ELSE \* push, draw, can_human_move = False, write_move_files
         CHOOSE res \in
           {IF is_game_over(after.board) THEN ShowResult(after)
            ELSE WaitUntilFilesDeleted(after, "ai", AfterAiMoveReady(Observe(after))) :
              after \in {[board |-> push(b, move[1]),
                          gui |-> WriteMoveFiles([st.gui EXCEPT !.can_human_move = FALSE])]}} :
           TRUE

\* computer_move(), interface.py:276-314
ComputerMove(st, rnd) ==
    IF is_game_over(st.board) THEN st
    ELSE CHOOSE res \in
           {PlayComputerMove(st, r.board, Fallback(r, rnd).move) :
              r \in {RootSearch(GuiDepth, st.board, None)}} : TRUE

\* after_human_move_ready(), interface.py:110-123
AfterHumanMoveReady(st, rnd) ==
    IF is_game_over(st.board) THEN ShowResult(st)
    ELSE ComputerMove(st, rnd)

\* on_click(event), interface.py:196-273: target 0 is a click that completes
\* no legal move, target i >= 1 one that completes the i-th legal move
OnClick ==
    /\ gui.open
    /\ ~is_game_over(board)
    /\ gui.can_human_move
    /\ board.turn = WHITE
    /\ Len(board.move_stack) < MaxGuiPly
    /\ \E target \in 0..NumLegal(board) :
          IF ~gui.selected
          THEN gui' = [gui EXCEPT !.selected = TRUE] /\ UNCHANGED board
          ELSE IF target = 0
          THEN gui' = [gui EXCEPT !.selected = FALSE] /\ UNCHANGED board
          ELSE \E after \in {[board |-> push(board, legal_moves(board)[target]),
                             gui |-> WriteMoveFiles([gui EXCEPT !.selected = FALSE,
                                                                 !.can_human_move = FALSE])]} :
                 \E res \in {IF is_game_over(after.board) THEN ShowResult(after)
                             ELSE WaitUntilFilesDeleted(after, "human",
                                      AfterHumanMoveReady(Observe(after), 1))} :
                    board' = res.board /\ gui' = res.gui
    /\ UNCHANGED <<engine_depth, calls, evaluated, run, console>>

\* the root.after(200, ...) callback of interface.py:108 runs
Poll ==
    /\ gui.open
    /\ gui.timer /= "none"
    /\ \E rnd \in 1..MaxMoves :
          \E st \in {[board |-> board, gui |-> [gui EXCEPT !.timer = "none"]]} :
             \E res \in {WaitUntilFilesDeleted(st, gui.timer,
                            IF gui.timer = "human"
                            THEN AfterHumanMoveReady(Observe(st), rnd)
                            ELSE AfterAiMoveReady(Observe(st)))} :
                board' = res.board /\ gui' = res.gui
    /\ UNCHANGED <<engine_depth, calls, evaluated, run, console>>

\* the external system deletes a move file
RobotDeletes ==
    /\ gui.open
    /\ \/ gui.initial /\ gui' = [gui EXCEPT !.initial = FALSE]
       \/ gui.final /\ gui' = [gui EXCEPT !.final = FALSE]
    /\ UNCHANGED <<board, engine_depth, calls, evaluated, run, console>>

NextGUI == OnClick \/ Poll \/ RobotDeletes

SpecGUI == InitGUI /\ [][NextGUI]_vars

\* Tk runs a pending root.after callback, and the external system goes on
\* deleting the move files it is given
SpecGUIFair == SpecGUI /\ WF_vars(Poll) /\ WF_vars(RobotDeletes)

\* ------------------------------------------------- the console game, main.py
\* depth=3 in main, main.py:23
ConsoleDepth == 3

\* the plies a console game is followed for
MaxConsolePly == 4

\* chess.Move.null(), a move no position has among its legal moves
NullMove == [idx |-> 0, promotion |-> FALSE]

\* board.fen(): the placement and the side to move, then the move number
fen(b) == [key |-> b.key, turn |-> b.turn, fullmove |-> (Len(b.move_stack) \div 2) + 1]

\* rec.snapshot(board), recorder.py:39-51
snapshot(rec, b) == [rec EXCEPT !.positions_fen = Append(@, fen(b))]

\* rec.add_move(move, board_before), recorder.py:54-65
add_move(rec, move) == [rec EXCEPT !.pgn = Append(@, move)]

\* main.py:17-23: the board, the recorder with its first snapshot, the engine
InitConsole ==
    /\ \E seed \in 0..(NumSeeds - 1) :
          board = [turn |-> WHITE, key |-> Mix(seed, 0), move_stack |-> <<>>, stack |-> <<>>]
    /\ engine_depth = ConsoleDepth
    /\ calls = <<>>
    /\ evaluated = None
    /\ run = Idle
    /\ gui = NoGui
    /\ console = [phase |-> "loop", positions_fen |-> <<fen(board)>>, pgn |-> <<>>,
                  last |-> "start"]

\* what can be typed at the prompt: a command, the SAN or the UCI text of the
\* i-th legal move, a text parse_san reads as the null move ("--", "Z0",
\* "0000", "@@@@"), the UCI text of a move that is not legal, anything else
Inputs(b) ==
    {[kind |-> k, i |-> 0] : k \in {"quit", "fen", "help", "null", "illegal", "garbage"}}
        \cup {[kind |-> k, i |-> i] : k \in {"san", "uci"}, i \in 1..NumLegal(b)}

\* board.parse_san(user), main.py:53: the move, or None for a ValueError
parse_san(b, user) ==
    IF user.kind = "san" THEN Some(legal_moves(b)[user.i])
    ELSE IF user.kind = "null" THEN Some(NullMove)
    ELSE None

\* main.py:58-65: chess.Move.from_uci(user) and the legality test, None for
\* "Invalid move. Try again."
parse_uci(b, user) ==
    IF user.kind = "uci" THEN Some(legal_moves(b)[user.i]) ELSE None

\* main.py:52-65
ParseMove(b, user) ==
    IF parse_san(b, user) /= None THEN parse_san(b, user) ELSE parse_uci(b, user)

\* main.py:68-71 and 85-90: push, add_move, snapshot
Record(b, move, last) ==
    \E after \in {push(b, move)} :
       /\ board' = after
       /\ console' = [snapshot(add_move(console, move), after) EXCEPT !.last = last]

\* rec.save_all() after the loop, main.py:93-99
SaveAll(last) == console' = [console EXCEPT !.phase = "saved", !.last = last]

\* one pass of the loop with White to move, main.py:33-71
HumanTurn ==
    /\ console.phase = "loop"
    /\ ~is_game_over(board)
    /\ board.turn = WHITE
    /\ \E user \in Inputs(board) :
          IF user.kind = "quit" THEN SaveAll("quit") /\ UNCHANGED board
          ELSE IF user.kind \in {"fen", "help"}
          THEN console' = [console EXCEPT !.last = user.kind] /\ UNCHANGED board
          ELSE \E move \in {ParseMove(board, user)} :
                  IF move = None
                  THEN console' = [console EXCEPT !.last = "invalid"] /\ UNCHANGED board
                  ELSE /\ Len(board.move_stack) < MaxConsolePly
                       /\ Record(board, move[1], "human")
    /\ UNCHANGED <<engine_depth, calls, evaluated, run, gui>>

\* one pass of the loop with Black to move, main.py:74-90
EngineTurn ==
    /\ console.phase = "loop"
    /\ ~is_game_over(board)
    /\ board.turn = BLACK
    /\ \E rnd \in 1..MaxMoves :
          \E r \in {RootSearch(engine_depth, board, None)} :
             \E out \in {Fallback(r, rnd)} :
                IF out.move = None
                THEN SaveAll("no moves") /\ board' = r.board
                ELSE Record(r.board, out.move[1], "engine")
    /\ UNCHANGED <<engine_depth, calls, evaluated, run, gui>>

\* the loop ends with the game, main.py:25 and 93-99
GameOver ==
    /\ console.phase = "loop"
    /\ is_game_over(board)
    /\ SaveAll("result")
    /\ UNCHANGED <<board, engine_depth, calls, evaluated, run, gui>>

NextConsole == HumanTurn \/ EngineTurn \/ GameOver

SpecConsole == InitConsole /\ [][NextConsole]_vars

\* ------------------------------------------------------------ reference
\* The definitions below are what the properties compare the engine with.

Range(seq) == {seq[i] : i \in 1..Len(seq)}

Max(S) == CHOOSE v \in S : \A u \in S : u <= v

\* plain negamax without a window: the maximum over every legal move
RECURSIVE Minimax(_, _)
Minimax(b, depth) ==
    IF depth = 0 \/ is_game_over(b) THEN evaluate(b)
    ELSE Max({-Minimax(push(b, legal_moves(b)[i]), depth - 1) : i \in 1..NumLegal(b)})

\* the number of nodes of the tree plain negamax walks
RECURSIVE FullNodes(_, _, _)
FullNodes(b, depth, i) ==
    IF i = 0 THEN (IF depth = 0 \/ is_game_over(b) THEN 1 ELSE 1 + FullNodes(b, depth, 1))
    ELSE IF i > NumLegal(b) THEN 0
    ELSE FullNodes(push(b, legal_moves(b)[i]), depth - 1, 0) + FullNodes(b, depth, i + 1)

\* the same position as far as a caller can observe it
SameBoard(a, b) ==
    /\ a.turn = b.turn
    /\ a.key = b.key
    /\ piece_map(a) = piece_map(b)
    /\ legal_moves(a) = legal_moves(b)
    /\ is_game_over(a) = is_game_over(b)
    /\ a.move_stack = b.move_stack

RECURSIVE SumValues(_, _)
SumValues(pieces, c) ==
    IF pieces = <<>> THEN 0
    ELSE (IF Head(pieces).color = c THEN PIECE_VALUES[Head(pieces).piece_type] ELSE 0)
         + SumValues(Tail(pieces), c)

MatesInOne(b) == {i \in 1..NumLegal(b) : is_checkmate(push(b, legal_moves(b)[i]))}

Captures(b) == {i \in 1..NumLegal(b) : is_capture(b, legal_moves(b)[i])}

Quiet(b) ==
    {i \in 1..NumLegal(b) : ~is_capture(b, legal_moves(b)[i]) /\ ~legal_moves(b)[i].promotion}

Unordered(b, depth) == Search(FALSE, b, depth, -Infinity, Infinity, <<>>, 0, <<>>)

\* --------------------------------------------------------------- claims

\* C1: after choose_move returns, the board is the board it was given:
\* side to move, piece placement, legal moves, terminal status and move
\* stack are those of the position before the call.
C1_BoardRestored ==
    \A k \in 1..Len(calls) :
        SameBoard(calls[k].after, calls[k].before) /\ SameBoard(board, calls[k].before)

\* a search of depth >= 2 that pushed, popped and cut off, and left the board alone
C1_Witness ==
    \E k \in 1..Len(calls) :
        /\ calls[k].d >= 2
        /\ calls[k].nodes > 3
        /\ calls[k].nodes < FullNodes(calls[k].before, calls[k].d, 0)
        /\ SameBoard(calls[k].after, calls[k].before)

\* C2: with the full window the score of _negamax is the score of plain
\* negamax without pruning, for every depth 0..MaxDepth.
C2_AlphaBetaEqualsMinimax ==
    \A k \in 1..Len(calls) : calls[k].score = Minimax(calls[k].before, calls[k].d)

\* a search of the largest depth that pruned and still returned the plain score
C2_Witness ==
    \E k \in 1..Len(calls) :
        /\ calls[k].d = MaxDepth
        /\ calls[k].nodes < FullNodes(calls[k].before, calls[k].d, 0)
        /\ calls[k].score = Minimax(calls[k].before, calls[k].d)

\* C3: choose_move returns one of the legal moves when there is one, and
\* None exactly when there is none, whatever the depth.
C3_ReturnsLegalMove ==
    \A k \in 1..Len(calls) :
        LET legal == legal_moves(calls[k].before)
        IN /\ legal /= <<>> => (calls[k].move /= None /\ calls[k].move[1] \in Range(legal))
           /\ legal = <<>> <=> calls[k].move = None

\* depth 0 with legal moves: the search has no move and one is still returned
C3_Witness ==
    \E k \in 1..Len(calls) :
        /\ calls[k].d = 0
        /\ NumLegal(calls[k].before) >= 2
        /\ calls[k].search_move = None
        /\ calls[k].move /= None
        /\ calls[k].move[1] \in Range(legal_moves(calls[k].before))

\* C4: when the side to move has a move that checkmates, choose_move with
\* depth >= 1 returns a move that checkmates, and evaluate of the position
\* after it is the checkmate sentinel.
C4_MateInOneFound ==
    \A k \in 1..Len(calls) :
        (calls[k].d >= 1 /\ MatesInOne(calls[k].before) /= {}) =>
            /\ calls[k].move /= None
            /\ calls[k].move[1].idx \in MatesInOne(calls[k].before)
            /\ evaluate(push(calls[k].before, calls[k].move[1])) \in {-999999, 999999}

\* C5: on a position that is neither checkmate nor a draw, evaluate is the
\* material of the side to move minus the material of the opponent, plus
\* mobility_weight times the number of legal moves.
C5_SideToMoveRelative ==
    evaluated /= None =>
        LET b == evaluated[1].board
        IN (~is_checkmate(b) /\ ~is_stalemate(b) /\ ~is_insufficient_material(b)
              /\ ~can_claim_draw(b)) =>
            evaluated[1].score =
                SumValues(piece_map(b), b.turn) - SumValues(piece_map(b), ~b.turn)
                + mobility_weight * NumLegal(b)

\* C6 as stated: two calls on the same position with the same depth >= 1
\* return the same move, and the random source is consulted only when the
\* effective depth is 0.
C6_Deterministic ==
    /\ \A k \in 1..Len(calls) : calls[k].random_used => calls[k].d = 0
    /\ (Len(calls) = 2 /\ calls[1].before = calls[2].before /\ calls[1].d = calls[2].d
          /\ calls[1].d >= 1) => calls[1].move = calls[2].move

\* C6: on a position that is not game over, two calls with the same depth
\* >= 1 return the same move; the random source is consulted only when the
\* effective depth is 0 or the position is game over.
C6_DeterministicUnlessGameOver ==
    /\ \A k \in 1..Len(calls) :
           calls[k].random_used => (calls[k].d = 0 \/ is_game_over(calls[k].before))
    /\ (Len(calls) = 2 /\ calls[1].before = calls[2].before /\ calls[1].d = calls[2].d
          /\ calls[1].d >= 1 /\ ~is_game_over(calls[1].before))
           => calls[1].move = calls[2].move

\* two calls of depth >= 1 on a live position with a choice of moves
C6_Witness ==
    /\ Len(calls) = 2
    /\ calls[1].d >= 1
    /\ ~is_game_over(calls[1].before)
    /\ NumLegal(calls[1].before) >= 2
    /\ ~calls[1].random_used /\ ~calls[2].random_used
    /\ calls[1].move = calls[2].move

\* C7: on stalemate, insufficient material or a claimable draw evaluate
\* returns 0.
C7_DrawScoresZero ==
    evaluated /= None =>
        LET b == evaluated[1].board
        IN (is_stalemate(b) \/ is_insufficient_material(b) \/ can_claim_draw(b))
              => evaluated[1].score = 0

\* a claimable draw with moves to play and unequal material, scored 0
C7_Witness ==
    /\ evaluated /= None
    /\ can_claim_draw(evaluated[1].board)
    /\ ~is_stalemate(evaluated[1].board)
    /\ ~is_insufficient_material(evaluated[1].board)
    /\ MaterialFrom(piece_map(evaluated[1].board), 1) /= 0
    /\ evaluated[1].score = 0

C9_NoMoveIffDepthZero ==
    \A k \in 1..Len(calls) : calls[k].search_move = None <=> calls[k].d = 0

\* C9: the root search returns no move exactly when the effective depth is
\* 0 or the position is game over.
C9_NoMoveIffLeaf ==
    \A k \in 1..Len(calls) :
        calls[k].search_move = None <=> (calls[k].d = 0 \/ is_game_over(calls[k].before))

\* depth >= 1 on a game-over position that still has legal moves
C9_Witness ==
    \E k \in 1..Len(calls) :
        /\ calls[k].d >= 1
        /\ is_game_over(calls[k].before)
        /\ NumLegal(calls[k].before) > 0
        /\ calls[k].search_move = None

\* C10 as stated: on a position with at least two captures and a quiet
\* move, the ordered search visits no more nodes than the search in
\* generation order, and both return the same score.
C10_OrderingNeverWorse ==
    \A k \in 1..Len(calls) :
        (Cardinality(Captures(calls[k].before)) >= 2 /\ Quiet(calls[k].before) /= {}) =>
            \E plain \in {Unordered(calls[k].before, calls[k].d)} :
                calls[k].nodes <= plain.nodes /\ calls[k].score = plain.score

\* C10: on such a position both searches return the same score, and for
\* depth <= 1 the ordered search visits no more nodes than the other.
C10_OrderingKeepsScore ==
    \A k \in 1..Len(calls) :
        (Cardinality(Captures(calls[k].before)) >= 2 /\ Quiet(calls[k].before) /= {}) =>
            \E plain \in {Unordered(calls[k].before, calls[k].d)} :
                /\ calls[k].score = plain.score
                /\ calls[k].d <= 1 => calls[k].nodes <= plain.nodes

\* a search of depth >= 2 where ordering changed the node count, not the score
C10_Witness ==
    \E k \in 1..Len(calls) :
        /\ calls[k].d >= 2
        /\ ~is_game_over(calls[k].before)
        /\ Cardinality(Captures(calls[k].before)) >= 2
        /\ Quiet(calls[k].before) /= {}
        /\ \E plain \in {Unordered(calls[k].before, calls[k].d)} :
               calls[k].nodes /= plain.nodes /\ calls[k].score = plain.score

\* C11: choose_move searches to the depth override whenever one is given,
\* an override of 0 included, and to the depth configured at construction
\* only when none is given.
C11_OverrideDepth ==
    \A k \in 1..Len(calls) :
        \E want \in {IF calls[k].depth = None THEN engine_depth ELSE calls[k].depth[1]} :
            /\ calls[k].d = want
            /\ calls[k].score = Minimax(calls[k].before, want)
            /\ want = 0 => (calls[k].nodes = 1 /\ calls[k].search_move = None)

\* an override of 0 on an engine configured deeper, on a live position
C11_Witness ==
    \E k \in 1..Len(calls) :
        /\ calls[k].depth = Some(0)
        /\ engine_depth >= 2
        /\ ~is_game_over(calls[k].before)
        /\ calls[k].nodes = 1
        /\ calls[k].score /= Minimax(calls[k].before, engine_depth)

MovesOf(visited) == [k \in 1..Len(visited) |-> visited[k].move]

IsPrefix(a, b) == Len(a) <= Len(b) /\ a = SubSeq(b, 1, Len(a))

\* captures, then promotions that do not capture, then the other moves, each
\* class in the order legal_moves lists it
ClassOf(b, m) == IF is_capture(b, m) THEN 1 ELSE IF m.promotion THEN 2 ELSE 3

RefOrder(b) ==
    SelectSeq(legal_moves(b), LAMBDA m : ClassOf(b, m) = 1)
    \o SelectSeq(legal_moves(b), LAMBDA m : ClassOf(b, m) = 2)
    \o SelectSeq(legal_moves(b), LAMBDA m : ClassOf(b, m) = 3)

\* the call-by-call search ends with the result of the search taken as a whole
StepsAgreeWithSearch ==
    run.phase = "done" =>
        \E r \in {negamax(run.last[1].entry, run.d, RootWindow.alpha, RootWindow.beta)} :
            /\ run.ret[1].score = r.score
            /\ run.ret[1].move = r.move
            /\ board = r.board

\* C13: during a search the number of moves applied and not yet undone
\* is the recursion level of the current call; when a call returns, also
\* after a cutoff, the board is the one the call was entered with; and
\* undoing the move a call was entered by gives its caller's position.
C13_StackDiscipline ==
    /\ run.phase = "search" =>
          /\ Len(board.move_stack) - Len(run.frames[1].entry.move_stack)
                = Len(run.frames) - 1
          /\ board = Top(run.frames).entry
          /\ \A k \in 1..(Len(run.frames) - 1) :
                pop(run.frames[k + 1].entry) = run.frames[k].entry
    /\ run.last /= None => run.last[1].board = run.last[1].entry

\* a call below the root that cut off with moves left and returned on the
\* board it was entered with
C13_Witness ==
    /\ run.last /= None
    /\ run.last[1].level >= 1
    /\ run.last[1].broke
    /\ Len(run.last[1].visited) < Len(run.last[1].moves)
    /\ run.last[1].board = run.last[1].entry

\* C15: a _negamax call returns no move exactly when depth is 0 or the
\* position is game over; it then applied no move and returns evaluate of
\* the position; otherwise it returns one of the position's legal moves.
C15_NoMoveOnlyAtLeaf ==
    run.last /= None =>
        LET r == run.last[1]
            leaf == r.depth = 0 \/ is_game_over(r.entry)
        IN /\ r.move = None <=> leaf
           /\ leaf => (r.visited = <<>> /\ r.score = evaluate(r.entry) /\ r.board = r.entry)
           /\ ~leaf => (r.move /= None /\ r.move[1] \in Range(legal_moves(r.entry)))

\* a call below the root, with a narrowed window, that returned a legal move
C15_Witness ==
    /\ run.last /= None
    /\ run.last[1].level >= 1
    /\ run.last[1].depth >= 1
    /\ ~is_game_over(run.last[1].entry)
    /\ run.last[1].beta < Infinity
    /\ run.last[1].move /= None
    /\ run.last[1].move[1] \in Range(legal_moves(run.last[1].entry))

\* C16: at every interior node the moves are applied captures first, then
\* the promotions that do not capture, then the others, each class in the
\* order of legal_moves.
C16_AppliedInClassOrder ==
    /\ \A k \in 1..Len(run.frames) :
          run.frames[k].pc = "loop" =>
             /\ IsPrefix(MovesOf(run.frames[k].visited), RefOrder(run.frames[k].entry))
             /\ k < Len(run.frames) =>
                   run.frames[k + 1].entry
                      = push(run.frames[k].entry,
                             RefOrder(run.frames[k].entry)[Len(run.frames[k].visited) + 1])
    /\ run.last /= None =>
          IsPrefix(MovesOf(run.last[1].visited), RefOrder(run.last[1].entry))

\* a node with a capture, a promotion and a quiet move, listed in another
\* order than they are applied in, and all of them applied
C16_Witness ==
    /\ run.last /= None
    /\ \E r \in {run.last[1]} :
          /\ ~r.leaf
          /\ {ClassOf(r.entry, legal_moves(r.entry)[i]) : i \in 1..NumLegal(r.entry)}
                = {1, 2, 3}
          /\ legal_moves(r.entry) /= RefOrder(r.entry)
          /\ MovesOf(r.visited) = RefOrder(r.entry)

\* C17: at the head of a node's loop, if alpha >= beta the next step is the
\* return of the node and no move is applied; if alpha < beta and moves are
\* left, the next step applies the next move of the ordered list.
C17_FailHardCutoff ==
    [][(run.phase = "search" /\ Top(run.frames).pc = "loop") =>
          /\ Top(run.frames).alpha >= Top(run.frames).beta =>
                (Len(run'.frames) < Len(run.frames) /\ Len(board'.move_stack) <= Len(board.move_stack))
          /\ (Top(run.frames).alpha < Top(run.frames).beta
                /\ Top(run.frames).i <= Len(Top(run.frames).moves)) =>
                (/\ Len(run'.frames) = Len(run.frames) + 1
                 /\ board' = push(board, Top(run.frames).moves[Top(run.frames).i]))]_vars

\* a node that stopped on alpha >= beta with moves left
C17_Witness ==
    /\ run.last /= None
    /\ ~run.last[1].leaf
    /\ run.last[1].broke
    /\ 1 <= Len(run.last[1].visited)
    /\ Len(run.last[1].visited) < Len(run.last[1].moves)
    /\ -(run.last[1].visited[Len(run.last[1].visited)].child_score) >= run.last[1].beta

\* C18: the move a node returns is the first applied move whose negated
\* child score is the returned score.
C18_FirstBestKept ==
    (run.last /= None /\ ~run.last[1].leaf) =>
        \E r \in {run.last[1]} :
            \E j \in 1..Len(r.visited) :
                /\ r.move = Some(r.visited[j].move)
                /\ -(r.visited[j].child_score) = r.score
                /\ \A k \in 1..(j - 1) : -(r.visited[k].child_score) /= r.score
                /\ \A k \in 1..Len(r.visited) : -(r.visited[k].child_score) <= r.score

\* a node where a later move tied with the best and the first was returned
C18_Witness ==
    /\ run.last /= None
    /\ ~run.last[1].leaf
    /\ \E j, k \in 1..Len(run.last[1].visited) :
          /\ j < k
          /\ -(run.last[1].visited[j].child_score) = run.last[1].score
          /\ -(run.last[1].visited[k].child_score) = run.last[1].score
          /\ run.last[1].move = Some(run.last[1].visited[j].move)

\* C19: a root search of depth >= 1 on a position that is not game over
\* ends without a cutoff at the root, every legal move of the root applied
\* and undone exactly once.
C19_RootSeesEveryMove ==
    (run.phase = "done" /\ run.d >= 1 /\ ~is_game_over(run.last[1].entry)) =>
        \E r \in {run.last[1]} :
            /\ ~r.broke
            /\ Len(r.visited) = NumLegal(r.entry)
            /\ {r.visited[k].move : k \in 1..Len(r.visited)} = Range(legal_moves(r.entry))
            /\ board = r.entry
            /\ run.ret[1].move /= None

\* a finished search of depth >= 1 whose root went on to its remaining
\* moves after one that scored as a won checkmate
C19_Witness ==
    /\ run.phase = "done"
    /\ run.d >= 1
    /\ ~is_game_over(run.last[1].entry)
    /\ Len(run.last[1].visited) = NumLegal(run.last[1].entry)
    /\ \E k \in 1..(Len(run.last[1].visited) - 1) :
          -(run.last[1].visited[k].child_score) = 999999

\* C20: a search of depth d never has more than d calls nested below the
\* root call, nor more than d moves applied and not undone, and it ends.
C20_BoundedNesting ==
    /\ [](run.phase = "search" =>
             /\ Len(run.frames) - 1 <= run.d
             /\ Len(board.move_stack) - Len(run.frames[1].entry.move_stack) <= run.d)
    /\ <>(run.phase = "done")

\* a search of the largest depth with that many calls nested
C20_Witness ==
    /\ run.phase = "search"
    /\ run.d = MaxDepth
    /\ Len(run.frames) - 1 = MaxDepth

\* the handshake of a written move is pending: no poll has yet seen its
\* files both absent
Pending == gui.writes > gui.observed

\* C12: while the files of a written move have not been seen both absent
\* by a poll, can_human_move is false, no move is pushed and no files are
\* written for a new move; a move is pushed and its files written only
\* when every earlier handshake has been observed, at the latest by the
\* poll that runs the push.
C12_HandshakeGates ==
    /\ [](Pending => ~gui.can_human_move)
    /\ [][/\ board' /= board =>
                (gui'.writes = gui.writes + 1 /\ gui'.observed = gui.writes)
          /\ gui'.writes /= gui.writes =>
                (gui'.writes = gui.writes + 1 /\ gui'.observed = gui.writes
                   /\ board' /= board)
          /\ (Pending /\ (gui'.can_human_move \/ board' /= board)) =>
                (~gui.initial /\ ~gui.final /\ gui.timer /= "none")]_vars

\* a human move and the computer's reply, each released by its handshake,
\* and the human allowed to move again
C12_Witness ==
    /\ gui.open
    /\ gui.writes = 2
    /\ gui.observed = 2
    /\ gui.can_human_move
    /\ ~gui.shown
    /\ Len(board.move_stack) = 2

Abs(x) == IF x < 0 THEN -x ELSE x

\* C21: evaluate never exceeds 999999 in magnitude on a position with at
\* most MaxPieces pieces a side and MaxMobility legal moves, and stays
\* strictly below it unless the position is checkmate; every score the
\* search handles lies strictly between -10^9 and 10^9, so a node that
\* has examined a move holds a best move and a best score above -10^9.
C21_ScoreBounds ==
    /\ evaluated /= None =>
          \E e \in {evaluated[1]} :
             /\ Abs(e.score) <= 999999
             /\ ~is_checkmate(e.board) => Abs(e.score) < 999999
    /\ run.last /= None =>
          /\ Abs(run.last[1].score) < Infinity
          /\ \A k \in 1..Len(run.last[1].visited) :
                Abs(run.last[1].visited[k].child_score) < Infinity
    /\ \A k \in 1..Len(run.frames) :
          (run.frames[k].pc = "loop" /\ run.frames[k].visited /= <<>>) =>
             /\ run.frames[k].best_move /= None
             /\ run.frames[k].best_score > -Infinity
             /\ run.frames[k].best_score < Infinity
             /\ run.frames[k].best_score >= -(run.frames[k].visited[1].child_score)

\* the largest army against a bare king with the most legal moves, White
\* to move, scored by material and mobility
C21_Witness ==
    /\ evaluated /= None
    /\ IsSetUp(evaluated[1].board)
    /\ CountOf(piece_map(evaluated[1].board), WHITE) = MaxPieces
    /\ CountOf(piece_map(evaluated[1].board), BLACK) = 1
    /\ NumLegal(evaluated[1].board) = MaxMobility
    /\ evaluated[1].score = (MaxPieces - 1) * 900 + 3 * MaxMobility

\* C22: with the external system deleting both files after each write,
\* an accepted human move that does not end the game is followed by a
\* computer move, a computer move that does not end the game by
\* can_human_move becoming true, and the window is never blocked for ever
\* while the game is not over.
C22_HandshakeLiveness ==
    /\ \A n \in 0..(MaxGuiPly + 1) :
          (gui.timer = "human" /\ gui.writes = n) ~>
             (gui.writes = n + 1 /\ board.turn = WHITE)
    /\ (gui.timer = "ai") ~> (gui.can_human_move /\ gui.timer = "none")
    /\ (gui.open /\ ~gui.can_human_move /\ ~is_game_over(board)) ~>
          (gui.can_human_move \/ is_game_over(board))

\* the computer has answered the second human move and the external
\* system has taken one of the two files so far
C22_Witness ==
    /\ gui.open
    /\ gui.writes = 4
    /\ gui.timer = "ai"
    /\ ~gui.can_human_move
    /\ ~gui.initial
    /\ gui.final
    /\ ~is_game_over(board)

\* the move a step of the console game pushed
Pushed == board'.move_stack[Len(board'.move_stack)]

\* C23: in the console game every move pushed is legal in the position it
\* is pushed on, human moves are pushed only with White to move and engine
\* moves only with Black to move; an input that is neither valid SAN nor a
\* legal UCI move and the commands fen and help leave the board and the
\* recorder unchanged, and the same side is prompted again.
C23_ConsolePushesLegal ==
    [][/\ board'.move_stack /= board.move_stack =>
             /\ board'.move_stack = Append(board.move_stack, Pushed)
             /\ Pushed \in Range(legal_moves(board))
             /\ console'.last = "human" => board.turn = WHITE
             /\ console'.last = "engine" => board.turn = BLACK
       /\ console'.last \in {"fen", "help", "invalid"} =>
             /\ board' = board
             /\ console'.positions_fen = console.positions_fen
             /\ console'.pgn = console.pgn
             /\ console'.phase = "loop"
             /\ ~is_game_over(board') /\ board'.turn = WHITE]_vars

====
